---- MODULE Spec2Model ----
(***************************************************************************)
(* feedme-crawler: the worker pool of main, the per-feed pipeline          *)
(* processFeed, the selector interpreter crawlSelect and the storing       *)
(* nodes of crawlStore, together with CreateItems of the PostgreSQL        *)
(* backend.                                                                *)
(*                                                                         *)
(* Strings are sequences of one-character strings.  A JSON object is a     *)
(* record whose DOMAIN is the set of keys present in the object.  A value  *)
(* of a Go map[string]interface{} is a record [t, n, s]: an int n or a     *)
(* string s, tagged by t.  The nil error is the empty string Nil.          *)
(***************************************************************************)
EXTENDS Integers, Sequences, FiniteSets, Bags, TLC

\* ------------------------------------------------------------------------
\* Bounds of the model
\* ------------------------------------------------------------------------

\* largest number of feeds returned by db.SearchFeeds in one run
MaxFeeds == 2

\* largest value given to --workers
MaxWorkers == 2

\* largest value given to --workers in the runs against a database that fails
MaxStoreWorkers == 1

\* the largest --max-open-conns of a run
MaxConns == 2

\* the largest number of calls that the database fails in a run
MaxFaults == 1

\* ------------------------------------------------------------------------
\* Strings, strconv.Atoi and the %v formatting of an int
\* ------------------------------------------------------------------------

Nil == ""

\* Bind(e, F) is F(e) with e evaluated once: the value of e is bound to the
\* parameter of F before F is evaluated
Bind(e, F(_)) == CHOOSE y \in {F(r) : r \in {e}} : TRUE

Digits == <<"0", "1", "2", "3", "4", "5", "6", "7", "8", "9">>

IsDigit(c) == \E d \in 1..10 : Digits[d] = c

DigitVal(c) == (CHOOSE d \in 1..10 : Digits[d] = c) - 1

\* the largest and the smallest int of a build with 32 bit ints (386, arm);
\* a build for amd64 has the same with 2^63
IntMax == 2147483647

IntMin == (0 - IntMax) - 1

OutOfRange == 0 - 1

\* the number that the digits s stand for after acc, OutOfRange when it is
\* larger than IntMax
RECURSIVE DigitsToInt(_, _)
DigitsToInt(s, acc) ==
    IF s = <<>> THEN acc
    ELSE IF acc > (IntMax - DigitVal(Head(s))) \div 10 THEN OutOfRange
    ELSE DigitsToInt(Tail(s), acc * 10 + DigitVal(Head(s)))

\* strconv.Atoi: an optional sign followed by at least one decimal digit;
\* anything else is a syntax error and the returned int is 0.  A number
\* that does not fit an int is a range error and the returned int is the
\* largest int, or the smallest one after a minus sign.
Atoi(s) ==
    LET body == IF s # <<>> /\ Head(s) \in {"+", "-"} THEN Tail(s) ELSE s
        ok   == body # <<>> /\ \A k \in 1..Len(body) : IsDigit(body[k])
        neg  == s # <<>> /\ Head(s) = "-"
    IN  IF ~ok THEN [n |-> 0, ok |-> FALSE]
        ELSE Bind(DigitsToInt(body, 0),
                  LAMBDA un :
                    IF un = OutOfRange
                    THEN [n |-> IF neg THEN IntMin ELSE IntMax, ok |-> FALSE]
                    ELSE [n |-> IF neg THEN 0 - un ELSE un, ok |-> TRUE])

RECURSIVE NatToDigits(_)
NatToDigits(n) ==
    IF n < 10 THEN <<Digits[n + 1]>>
    ELSE NatToDigits(n \div 10) \o <<Digits[(n % 10) + 1]>>

Itoa(n) ==
    IF n = IntMin
    THEN <<"-">> \o NatToDigits(IntMax \div 10) \o <<Digits[(IntMax % 10) + 2]>>
    ELSE IF n < 0 THEN <<"-">> \o NatToDigits(0 - n)
    ELSE NatToDigits(n)

\* values of map[string]interface{}
IntValue(n) == [t |-> "int", n |-> n, s |-> <<>>]

StringValue(s) == [t |-> "string", n |-> 0, s |-> s]

\* the empty map[string]interface{}
EmptyMap == [k \in {} |-> IntValue(0)]

MapPut(m, name, v) ==
    [k \in DOMAIN m \cup {name} |-> IF k = name THEN v ELSE m[k]]

\* ------------------------------------------------------------------------
\* goquery: a page is a document whose elements are numbered 1..n in
\* document order; element 0 is the document itself (doc.Selection).
\* A Selection is a sequence of element numbers in document order.
\* ------------------------------------------------------------------------

RECURSIVE IsAncestor(_, _, _)
IsAncestor(page, a, n) ==
    IF n = 0 THEN FALSE
    ELSE page.parent[n] = a \/ IsAncestor(page, a, page.parent[n])

RECURSIVE SortedSeq(_)
SortedSeq(S) ==
    IF S = {} THEN <<>>
    ELSE LET m == CHOOSE x \in S : \A y \in S : x <= y
         IN  <<m>> \o SortedSeq(S \ {m})

\* Selection.Find: every descendant of an element of the selection that
\* matches the selector, each once, in document order
Find(page, selection, selector) ==
    SortedSeq({n \in 1..Len(page.tag) :
                 /\ page.tag[n] = selector
                 /\ \E k \in 1..Len(selection) : IsAncestor(page, selection[k], n)})

\* Selection.Attr: the attribute of the FIRST element of the selection
Attr(page, selection, name) ==
    IF selection = <<>> \/ selection[1] = 0
    THEN [value |-> <<>>, ok |-> FALSE]
    ELSE IF name \in DOMAIN page.attrs[selection[1]]
         THEN [value |-> page.attrs[selection[1]][name], ok |-> TRUE]
         ELSE [value |-> <<>>, ok |-> FALSE]

RECURSIVE ChildrenText(_, _, _)
RECURSIVE NodeText(_, _)
NodeText(page, n) ==
    (IF n = 0 THEN <<>> ELSE page.text[n]) \o ChildrenText(page, n, 1)

ChildrenText(page, n, c) ==
    IF c > Len(page.tag) THEN <<>>
    ELSE (IF page.parent[c] = n THEN NodeText(page, c) ELSE <<>>)
         \o ChildrenText(page, n, c + 1)

\* Selection.Text: the combined text of EVERY element of the selection
RECURSIVE Text(_, _)
Text(page, selection) ==
    IF selection = <<>> THEN <<>>
    ELSE NodeText(page, Head(selection)) \o Text(page, Tail(selection))

\* ------------------------------------------------------------------------
\* regexp: a pattern is a sequence of atoms: a literal character, \d+ or
\* .+ (either one possibly a capture group), or an unmatched parenthesis,
\* which makes the pattern invalid.
\* ------------------------------------------------------------------------

Lit(c) == [a |-> "lit", c |-> c, cap |-> FALSE]

DigitsAtom(cap) == [a |-> "digits", c |-> "", cap |-> cap]

AnyAtom(cap) == [a |-> "any", c |-> "", cap |-> cap]

OpenParen == [a |-> "open", c |-> "(", cap |-> FALSE]

\* regexp.Compile succeeds
CompileOk(re) == \A k \in 1..Len(re) : re[k].a # "open"

\* Regexp.NumSubexp
NumSubexp(re) == Cardinality({k \in 1..Len(re) : re[k].cap})

NoMatch == [ok |-> FALSE, groups |-> <<>>]

\* longest run of characters from position j on that atom at can consume
RECURSIVE RunLen(_, _, _)
RunLen(at, s, j) ==
    IF j > Len(s) THEN 0
    ELSE IF at.a = "digits" /\ ~IsDigit(s[j]) THEN 0
    ELSE 1 + RunLen(at, s, j + 1)

\* match atoms re[i..] against s from position j, greedy with backtracking
RECURSIVE MatchFrom(_, _, _, _)
MatchFrom(re, i, s, j) ==
    IF i > Len(re) THEN [ok |-> TRUE, groups |-> <<>>]
    ELSE IF re[i].a = "lit"
    THEN IF j <= Len(s) /\ s[j] = re[i].c
         THEN MatchFrom(re, i + 1, s, j + 1)
         ELSE NoMatch
    ELSE Bind({n \in 1..RunLen(re[i], s, j) : MatchFrom(re, i + 1, s, j + n).ok},
              LAMBDA lens :
                IF lens = {} THEN NoMatch
                ELSE Bind(CHOOSE x \in lens : \A y \in lens : y <= x,
                          LAMBDA n :
                            [ok |-> TRUE,
                             groups |-> (IF re[i].cap
                                         THEN <<SubSeq(s, j, j + n - 1)>>
                                         ELSE <<>>)
                                        \o MatchFrom(re, i + 1, s, j + n).groups]))

\* Regexp.FindStringSubmatch without matches[0]: the capture groups of the
\* leftmost match, or no match (nil)
FindStringSubmatch(re, s) ==
    Bind({j \in 1..(Len(s) + 1) : MatchFrom(re, 1, s, j).ok},
         LAMBDA starts :
           IF starts = {} THEN NoMatch
           ELSE MatchFrom(re, 1, s, CHOOSE j \in starts : \A k \in starts : j <= k))

\* ------------------------------------------------------------------------
\* crawlStore: the storing nodes regex and copy
\* ------------------------------------------------------------------------

\* a switch on typ that returns the error of strconv.Atoi
StoreTypedStrict(itemValue, name, typ, value) ==
    IF typ = "int"
    THEN IF Atoi(value).ok
         THEN [val |-> MapPut(itemValue, name, IntValue(Atoi(value).n)), err |-> Nil]
         ELSE [val |-> itemValue, err |-> "invalid syntax"]
    ELSE IF typ = "string"
    THEN [val |-> MapPut(itemValue, name, StringValue(value)), err |-> Nil]
    ELSE [val |-> itemValue, err |-> "unknown type"]

\* the switch on typ of crawlStore: "int" stores strconv.Atoi's int and
\* drops its error, "string" stores the raw value
StoreTyped(itemValue, name, typ, value) ==
    IF typ = "int"
    THEN [val |-> MapPut(itemValue, name, IntValue(Atoi(value).n)), err |-> Nil]
    ELSE IF typ = "string"
    THEN [val |-> MapPut(itemValue, name, StringValue(value)), err |-> Nil]
    ELSE [val |-> itemValue, err |-> "unknown type"]

\* the loop over transformMatches of the regex branch
RECURSIVE StoreMatches(_, _, _, _)
StoreMatches(groups, transformMatches, i, itemValue) ==
    IF i > Len(transformMatches) THEN [val |-> itemValue, err |-> Nil]
    ELSE IF "name" \notin DOMAIN transformMatches[i]
    THEN [val |-> itemValue, err |-> "match needs a name attribute"]
    ELSE IF "type" \notin DOMAIN transformMatches[i]
    THEN [val |-> itemValue, err |-> "match needs a type attribute"]
    ELSE Bind(StoreTyped(itemValue, transformMatches[i].name,
                         transformMatches[i].type, groups[i]),
              LAMBDA r : IF r.err # Nil THEN r
                         ELSE StoreMatches(groups, transformMatches, i + 1, r.val))

\* a test that lets a pattern with more groups than names pass
UnequalMatchCountFewer(groups, transformMatches) ==
    Len(groups) < Len(transformMatches)

\* if len(matches)-1 != len(transformMatches)
UnequalMatchCount(groups, transformMatches) ==
    Len(groups) # Len(transformMatches)

\* regexp.MustCompile panics when the pattern does not compile
MustCompilePanics(re) == ~CompileOk(re)

crawlStore(value, rawTransform, itemValue) ==
    IF "regex" \in DOMAIN rawTransform
    THEN IF "matches" \notin DOMAIN rawTransform
         THEN [val |-> itemValue, err |-> "regex node requires a matches attribute",
               panic |-> FALSE]
         ELSE IF MustCompilePanics(rawTransform.regex)
         THEN [val |-> itemValue, err |-> Nil, panic |-> TRUE]
         ELSE Bind(FindStringSubmatch(rawTransform.regex, value),
                   LAMBDA matches :
                     IF ~matches.ok
                     THEN [val |-> itemValue, err |-> "no matches found",
                           panic |-> FALSE]
                     ELSE IF UnequalMatchCount(matches.groups, rawTransform.matches)
                     THEN [val |-> itemValue, err |-> "unequal match count",
                           panic |-> FALSE]
                     ELSE Bind(StoreMatches(matches.groups, rawTransform.matches,
                                            1, itemValue),
                               LAMBDA r : [val |-> r.val, err |-> r.err,
                                           panic |-> FALSE]))
    ELSE IF "copy" \in DOMAIN rawTransform
    THEN IF "name" \notin DOMAIN rawTransform
         THEN [val |-> itemValue, err |-> "copy needs a name attribute", panic |-> FALSE]
         ELSE IF "type" \notin DOMAIN rawTransform
         THEN [val |-> itemValue, err |-> "copy needs a type attribute", panic |-> FALSE]
         ELSE Bind(StoreTyped(itemValue, rawTransform.name, rawTransform.type, value),
                   LAMBDA r : [val |-> r.val, err |-> r.err, panic |-> FALSE])
    ELSE [val |-> itemValue, err |-> "do not know how to transform", panic |-> FALSE]

\* ------------------------------------------------------------------------
\* crawlSelect: the selecting nodes search, find, attr and text
\* ------------------------------------------------------------------------

Last(seq) == seq[Len(seq)]

SetLast(seq, v) == [seq EXCEPT ![Len(seq)] = v]

\* jsonSelectNode: the selector string and the do array of a select node
jsonSelectNode(rawTransform, key) ==
    IF "do" \notin DOMAIN rawTransform
    THEN [selector |-> "", do |-> <<>>, err |-> "select node needs a do attribute"]
    ELSE [selector |-> IF key = "" THEN "" ELSE rawTransform[key],
          do |-> rawTransform.do, err |-> Nil]

\* element.Find never returns a nil *Selection, so the test s == nil of the
\* find branch is never true
SelectionIsNil(s) == FALSE

\* the loops "for _, d := range do { err = crawlStore(...) }" of attr and text
RECURSIVE StoreDo(_, _, _, _)
StoreDo(value, do, k, itemValues) ==
    IF k > Len(do) THEN [vals |-> itemValues, err |-> Nil, panic |-> FALSE]
    ELSE Bind(crawlStore(value, do[k], Last(itemValues)),
              LAMBDA r :
                IF r.panic \/ r.err # Nil
                THEN [vals |-> SetLast(itemValues, r.val), err |-> r.err,
                      panic |-> r.panic]
                ELSE StoreDo(value, do, k + 1, SetLast(itemValues, r.val)))

\* the node has this key and none of the other keys that name a kind
HasAlone(rawTransform, key) ==
    DOMAIN rawTransform \cap {"search", "find", "attr", "text"} = {key}

\* if _, ok := rawTransform[key]; ok
Has(rawTransform, key) == key \in DOMAIN rawTransform

\* a search that appends a map below the base level too
AppendsNested(baseSelection, i, nodes, itemValues) ==
    i # Len(nodes) /\ DOMAIN Last(itemValues) # {}

\* if baseSelection && i != nodes.Length()-1 &&
\*    len(itemValues[len(itemValues)-1]) != 0
Appends(baseSelection, i, nodes, itemValues) ==
    baseSelection /\ i # Len(nodes) /\ DOMAIN Last(itemValues) # {}

RECURSIVE crawlSelect(_, _, _, _)
RECURSIVE SelectDo(_, _, _, _, _)
RECURSIVE Each(_, _, _, _, _, _)

\* the loops "for _, d := range do { _, err = crawlSelect(s, d, itemValues) }"
\* of search and find: st holds itemValues and the variable err, which every
\* call assigns; the loop is left at the first error
SelectDo(page, s, do, k, st) ==
    IF k > Len(do) THEN st
    ELSE Bind(crawlSelect(page, s, do[k], st.vals),
              LAMBDA r : IF r.panic \/ r.err # Nil THEN r
                         ELSE SelectDo(page, s, do, k + 1, r))

\* nodes.Each of the search branch: the function literal returns at the first
\* error of its element, which skips the append and leaves err set; Each then
\* calls it for the next element
Each(page, nodes, i, do, st, baseSelection) ==
    IF i > Len(nodes) THEN st
    ELSE Bind(SelectDo(page, <<nodes[i]>>, do, 1, st),
              LAMBDA r :
                IF r.panic THEN r
                ELSE IF r.err # Nil
                THEN Each(page, nodes, i + 1, do, r, baseSelection)
                ELSE IF Appends(baseSelection, i, nodes, r.vals)
                THEN Bind([r EXCEPT !.vals = Append(r.vals, EmptyMap)],
                          LAMBDA st2 : Each(page, nodes, i + 1, do, st2, baseSelection))
                ELSE Each(page, nodes, i + 1, do, r, baseSelection))

\* itemValues = <<>> is the nil slice of the call from processFeed.  The
\* result holds itemValues as the call left them (the maps are shared with
\* the caller, also when an error is returned), the error and whether the
\* call panicked.
crawlSelect(page, element, rawTransform, itemValuesIn) ==
    Bind([vals |-> IF itemValuesIn = <<>> THEN <<EmptyMap>> ELSE itemValuesIn,
          err |-> Nil, panic |-> FALSE],
         LAMBDA start :
           IF Has(rawTransform, "search")
           THEN Bind(jsonSelectNode(rawTransform, "search"),
                     LAMBDA n :
                       IF n.err # Nil THEN [start EXCEPT !.err = n.err]
                       ELSE Bind(Find(page, element, n.selector),
                                 LAMBDA nodes : Each(page, nodes, 1, n.do, start,
                                                     itemValuesIn = <<>>)))
           ELSE IF Has(rawTransform, "find")
           THEN Bind(jsonSelectNode(rawTransform, "find"),
                     LAMBDA n :
                       IF n.err # Nil THEN [start EXCEPT !.err = n.err]
                       ELSE Bind(Find(page, element, n.selector),
                                 LAMBDA s :
                                   IF SelectionIsNil(s)
                                   THEN [start EXCEPT !.err = "no element found"]
                                   ELSE SelectDo(page, s, n.do, 1, start)))
           ELSE IF Has(rawTransform, "attr")
           THEN Bind(jsonSelectNode(rawTransform, "attr"),
                     LAMBDA n :
                       IF n.err # Nil THEN [start EXCEPT !.err = n.err]
                       ELSE Bind(Attr(page, element, n.selector),
                                 LAMBDA a :
                                   IF ~a.ok
                                   THEN [start EXCEPT !.err = "no attribute found"]
                                   ELSE StoreDo(a.value, n.do, 1, start.vals)))
           ELSE IF Has(rawTransform, "text")
           THEN Bind(jsonSelectNode(rawTransform, ""),
                     LAMBDA n :
                       IF n.err # Nil THEN [start EXCEPT !.err = n.err]
                       ELSE Bind(Text(page, element),
                                 LAMBDA text : StoreDo(text, n.do, 1, start.vals)))
           ELSE [start EXCEPT !.err = "do not know how to transform"])

\* ------------------------------------------------------------------------
\* text/template: a template is a sequence of parts, each one literal text
\* or an action {{.ref}}; ok is false when template.Parse fails.
\* ------------------------------------------------------------------------

TLit(s) == [kind |-> "lit", lit |-> s, ref |-> ""]

TRef(name) == [kind |-> "ref", lit |-> <<>>, ref |-> name]

\* what Execute prints for a key that the map does not hold
NoValue == <<"<", "n", "o", " ", "v", "a", "l", "u", "e", ">">>

PrintValue(v) == IF v.t = "int" THEN Itoa(v.n) ELSE v.s

RECURSIVE Execute(_, _)
Execute(parts, itemValue) ==
    IF parts = <<>> THEN <<>>
    ELSE LET p == Head(parts)
         IN  (IF p.kind = "lit" THEN p.lit
              ELSE IF p.ref \in DOMAIN itemValue THEN PrintValue(itemValue[p.ref])
              ELSE NoValue)
             \o Execute(Tail(parts), itemValue)

\* ------------------------------------------------------------------------
\* processFeed
\* ------------------------------------------------------------------------

\* time.Now().Format("2006-01-02")
Today == StringValue(<<"2", "0", "1", "4">>)

\* opts.TestFile == ""
NoTestFile == 0

\* feed.URL of a host that cannot be reached
Unreachable == 0

\* the field of feedme.Item that the switch on name assigns, "" if absent
Field(transformTemplates, name, itemValue) ==
    IF name \in DOMAIN transformTemplates
    THEN Execute(transformTemplates[name].parts, itemValue)
    ELSE <<>>

\* the loop over itemValues of one items entry: the default date, the
\* templates, and the test on Title and URI
\* a test that lets every item pass
ValidAlways(feedItem) == TRUE

\* a test that lets an item without a URI pass
ValidTitleOnly(feedItem) == feedItem.Title # <<>>

\* if feedItem.Title != "" && feedItem.URI != "" { items = append(...) }
Valid(feedItem) == feedItem.Title # <<>> /\ feedItem.URI # <<>>

\* a default date that replaces the date of the map
DefaultDateAlways(itemValue) == MapPut(itemValue, "date", Today)

\* if _, ok := itemValue["date"]; !ok { itemValue["date"] = time.Now()... }
DefaultDate(itemValue) ==
    IF "date" \in DOMAIN itemValue THEN itemValue
    ELSE MapPut(itemValue, "date", Today)

RECURSIVE RenderItems(_, _, _, _)
RenderItems(itemValues, k, transformTemplates, items) ==
    IF k > Len(itemValues) THEN [items |-> items, err |-> Nil]
    ELSE Bind(DefaultDate(itemValues[k]),
              LAMBDA itemValue :
                Bind([Title       |-> Field(transformTemplates, "title", itemValue),
                      URI         |-> Field(transformTemplates, "uri", itemValue),
                      Description |-> Field(transformTemplates, "description",
                                            itemValue)],
                     LAMBDA feedItem :
                       IF DOMAIN transformTemplates \ {"description", "title", "uri"}
                          # {}
                       THEN [items |-> items, err |-> "unkown field"]
                       ELSE IF Valid(feedItem)
                       THEN Bind(Append(items, feedItem),
                                 LAMBDA items2 : RenderItems(itemValues, k + 1,
                                                             transformTemplates, items2))
                       ELSE RenderItems(itemValues, k + 1, transformTemplates, items)))

\* a loop over jsonItems without the test for an empty last map
NothingToTransformNever(itemValues) == FALSE

\* a test that looks at the first map of the list
NothingToTransformFirst(itemValues) == DOMAIN itemValues[1] = {}

\* if len(itemValues[len(itemValues)-1]) == 0 { ...; continue }
NothingToTransform(itemValues) == DOMAIN Last(itemValues) = {}

\* the loop over jsonItems; walks records what crawlSelect returned per entry
RECURSIVE TransformEntries(_, _, _, _, _, _)
TransformEntries(page, jsonItems, k, transformTemplates, items, walks) ==
    IF k > Len(jsonItems)
    THEN [err |-> Nil, panic |-> FALSE, items |-> items, walks |-> walks]
    ELSE Bind(crawlSelect(page, <<0>>, jsonItems[k], <<>>),
              LAMBDA r :
                Bind(Append(walks, r),
                     LAMBDA w :
                       IF r.panic
                       THEN [err |-> Nil, panic |-> TRUE, items |-> <<>>, walks |-> w]
                       ELSE IF r.err # Nil
                       THEN [err |-> "cannot transform website", panic |-> FALSE,
                             items |-> <<>>, walks |-> w]
                       ELSE IF NothingToTransform(r.vals)
                       THEN TransformEntries(page, jsonItems, k + 1,
                                             transformTemplates, items, w)
                       ELSE Bind(RenderItems(r.vals, 1, transformTemplates, items),
                                 LAMBDA x :
                                   IF x.err # Nil
                                   THEN [err |-> x.err, panic |-> FALSE,
                                         items |-> <<>>, walks |-> w]
                                   ELSE TransformEntries(page, jsonItems, k + 1,
                                                         transformTemplates,
                                                         x.items, w))))

\* a processFeed that saves the items of a test file too
SavesAlways(testFile) == TRUE

\* if opts.TestFile == "" { err = db.CreateItems(feed, items) }
Saves(testFile) == testFile = NoTestFile

\* a loop over jsonItems that goes on to db.CreateItems after an error
LoopCompletedAlways(r) == TRUE

\* the loop over jsonItems has ended without a return and without a panic
LoopCompleted(r) == ~r.panic /\ r.err = Nil

Failed(e) == [err |-> e, panic |-> FALSE, items |-> <<>>, walks |-> <<>>, create |-> FALSE]

Panicked == [err |-> Nil, panic |-> TRUE, items |-> <<>>, walks |-> <<>>, create |-> FALSE]

\* processFeed up to the call of db.CreateItems: err is the returned error,
\* panic says that the goroutine panicked, items is the argument of
\* CreateItems and create says whether CreateItems is called.
\* *raw["transform"] and *raw["items"] dereference a nil pointer when the
\* member is absent.
processFeed(feed, web, testFile) ==
    IF ~feed.Transform.syntax THEN Failed("cannot parse transform JSON")
    ELSE LET raw == feed.Transform.raw
         IN  IF "transform" \notin DOMAIN raw THEN Panicked
             ELSE IF \E name \in DOMAIN raw.transform : ~raw.transform[name].ok
             THEN Failed("cannot create transform template")
             ELSE IF "items" \notin DOMAIN raw THEN Panicked
             ELSE IF testFile = NoTestFile /\ feed.URL = Unreachable
             THEN Failed("cannot open URL")
             ELSE Bind(TransformEntries(IF testFile # NoTestFile THEN web[testFile]
                                        ELSE web[feed.URL],
                                        raw.items, 1, raw.transform, <<>>, <<>>),
                       LAMBDA r :
                         [err |-> r.err, panic |-> r.panic, items |-> r.items,
                          walks |-> r.walks,
                          create |-> LoopCompleted(r) /\ Saves(testFile)])

\* a logVerbose that prints whatever --verbose says
logVerboseAlways(verbose, line) == <<line>>

\* if !opts.Verbose { return 0, nil }; return fmt.Printf("VERBOSE "+...)
logVerbose(verbose, line) == IF ~verbose THEN <<>> ELSE <<line>>

\* the lines that the loop over itemValues of one entry prints: one
\* "found item" per item that passes the test, none when the loop returns an
\* error in its first round
RECURSIVE FoundItems(_, _, _)
FoundItems(verbose, items, k) ==
    IF k > Len(items) THEN <<>>
    ELSE logVerbose(verbose, "found item") \o FoundItems(verbose, items, k + 1)

FoundLines(verbose, itemValues, transformTemplates) ==
    Bind(RenderItems(itemValues, 1, transformTemplates, <<>>),
         LAMBDA x : IF x.err # Nil THEN <<>> ELSE FoundItems(verbose, x.items, 1))

\* the lines that the loop over jsonItems prints for the entries from k on
RECURSIVE EntryLines(_, _, _, _)
EntryLines(verbose, walks, k, transformTemplates) ==
    IF k > Len(walks) THEN <<>>
    ELSE IF walks[k].panic \/ walks[k].err # Nil THEN <<>>
    ELSE IF NothingToTransform(walks[k].vals)
    THEN logVerbose(verbose, "Nothing to transform")
         \o EntryLines(verbose, walks, k + 1, transformTemplates)
    ELSE FoundLines(verbose, walks[k].vals, transformTemplates)
         \o EntryLines(verbose, walks, k + 1, transformTemplates)

\* what the logVerboseWorker calls of one processFeed call print
VerboseLines(verbose, feed, web, testFile) ==
    logVerbose(verbose, "fetch feed")
    \o Bind(processFeed(feed, web, testFile),
            LAMBDA r : IF r.walks = <<>> THEN <<>>
                       ELSE EntryLines(verbose, r.walks, 1,
                                       feed.Transform.raw.transform))

\* const ( ReturnOk = iota; ReturnHelp )
ReturnOk == 0

ReturnHelp == 1

\* the status of a process that the Go runtime ends after a panic
PanicStatus == 2

\* the process has not ended
NoStatus == 0 - 1

\* ------------------------------------------------------------------------
\* backend: CreateItems of the PostgreSQL backend.  The table items is a bag
\* of rows; one call is one transaction.  A transaction works on its view of
\* the table: the committed rows and the rows it has inserted itself.
\* ------------------------------------------------------------------------

Row(feedID, i) ==
    [feed |-> feedID, title |-> i.Title, uri |-> i.URI, description |-> i.Description]

\* a plain INSERT INTO items(...) VALUES (...)
InsertAlways(table, row) == table (+) SetToBag({row})

\* INSERT ... SELECT ... WHERE NOT EXISTS(SELECT id FROM items WHERE ...)
InsertWhereNotExists(table, row) ==
    IF BagIn(row, table) THEN table ELSE table (+) SetToBag({row})

\* the first n rounds of for _, i := range items { tx.Exec(...) }
RECURSIVE ExecItems(_, _, _, _)
ExecItems(view, feedID, items, n) ==
    IF n = 0 THEN view
    ELSE InsertWhereNotExists(ExecItems(view, feedID, items, n - 1),
                              Row(feedID, items[n]))

\* statements that are committed one by one, as with p.Db.Exec
Autocommitted(table, view) == view

\* what the table holds of a transaction that ends without tx.Commit
Uncommitted(table, view) == table

\* the calls of one CreateItems that the database can fail
BeginFails == 0 - 1

NoFailure == 0

ExecFails(items) == 1..Len(items)

CommitFails(items) == Len(items) + 1

\* CreateItems when the call numbered fail returns an error: table is the
\* table afterwards, err the returned error, and open says that the
\* function returns without tx.Commit or tx.Rollback, so that the
\* transaction keeps its connection.
CreateItems(table, feedID, items, fail) ==
    IF fail = BeginFails
    THEN [table |-> table, err |-> "begin", open |-> FALSE]
    ELSE IF fail \in ExecFails(items)
    THEN [table |-> Uncommitted(table, ExecItems(table, feedID, items, fail - 1)),
          err |-> "exec", open |-> TRUE]
    ELSE IF fail = CommitFails(items)
    THEN [table |-> Uncommitted(table, ExecItems(table, feedID, items, Len(items))),
          err |-> "commit", open |-> FALSE]
    ELSE [table |-> ExecItems(table, feedID, items, Len(items)),
          err |-> Nil, open |-> FALSE]

\* ------------------------------------------------------------------------
\* feedme-server: getFeedItems builds the links of the items of a feed
\* ------------------------------------------------------------------------

Letters ==
    {"a", "b", "c", "d", "e", "f", "g", "h", "i", "j", "k", "l", "m", "n", "o",
     "p", "q", "r", "s", "t", "u", "v", "w", "x", "y", "z",
     "A", "B", "C", "D", "E", "F", "G", "H", "I", "J", "K", "L", "M", "N", "O",
     "P", "Q", "R", "S", "T", "U", "V", "W", "X", "Y", "Z"}

\* reProtocol := regexp.MustCompile(`[a-zA-Z0-9+\-.]+://`); MatchString
\* looks for the expression anywhere in the string
reProtocolMatchString(uri) ==
    \E j \in 2..(Len(uri) - 2) :
        /\ uri[j - 1] \in Letters \cup {"+", "-", "."} \/ IsDigit(uri[j - 1])
        /\ uri[j] = ":" /\ uri[j + 1] = "/" /\ uri[j + 2] = "/"

\* u.String() of the URL of a feed after u.Path = "": http://wN
feedURLWithoutPath(url) == <<"h", "t", "t", "p", ":", "/", "/", "w">> \o Itoa(url)

\* u.String() of the URL http://wN/n of a feed, with the "/" that is added
\* when it does not end in one
feedURL(url) == feedURLWithoutPath(url) \o <<"/", "n", "/">>

\* i.URI[0] of an empty string is an index out of range
LinkPanics(uri) == ~reProtocolMatchString(uri) /\ uri = <<>>

\* the link of one item
Link(url, uri) ==
    IF reProtocolMatchString(uri) THEN uri
    ELSE IF uri[1] = "/" THEN feedURLWithoutPath(url) \o uri
    ELSE feedURL(url) \o uri

\* getFeedItems for the feed with this id and URL: the links of the items
\* that db.SearchItems selects, or the panic of the handler
getFeedItems(feedID, url, items) ==
    Bind({r \in BagToSet(items) : r.feed = feedID},
         LAMBDA rows :
           IF \E r \in rows : LinkPanics(r.uri)
           THEN [panic |-> TRUE, links |-> {}]
           ELSE [panic |-> FALSE,
                 links |-> UNION {{Link(url, r.uri)} : r \in rows}])

\* no request has been answered
NoFeeder == [feed |-> 0, panic |-> FALSE, links |-> {}]

\* ------------------------------------------------------------------------
\* The pages of the web and the transformation definitions that the runs
\* of the model draw their feeds from
\* ------------------------------------------------------------------------

NoAttrs == [k \in {} |-> <<>>]

Href(v) == [k \in {"href"} |-> v]

Id42 == <<"i", "d", "=", "4", "2">>

Id7 == <<"i", "d", "=", "7">>

\* <div><a href="id=42">A</a></div><div><a href="id=7">B</a></div>
PageNews ==
    [parent |-> <<0, 1, 0, 3>>, tag |-> <<"div", "a", "div", "a">>,
     attrs |-> <<NoAttrs, Href(Id42), NoAttrs, Href(Id7)>>,
     text |-> << <<>>, <<"A">>, <<>>, <<"B">> >>]

\* <div><a>A</a></div><div><a href="id=7">B</a></div>
PageFirstBroken ==
    [parent |-> <<0, 1, 0, 3>>, tag |-> <<"div", "a", "div", "a">>,
     attrs |-> <<NoAttrs, NoAttrs, NoAttrs, Href(Id7)>>,
     text |-> << <<>>, <<"A">>, <<>>, <<"B">> >>]

\* <div><a href="id=42">A</a></div><div><a>B</a></div>
PageLastBroken ==
    [parent |-> <<0, 1, 0, 3>>, tag |-> <<"div", "a", "div", "a">>,
     attrs |-> <<NoAttrs, Href(Id42), NoAttrs, NoAttrs>>,
     text |-> << <<>>, <<"A">>, <<>>, <<"B">> >>]

\* <span>x</span>
PageNoNews ==
    [parent |-> <<0>>, tag |-> <<"span">>, attrs |-> <<NoAttrs>>,
     text |-> << <<"x">> >>]

\* <div><a href="id=42">A</a><a href="id=7">B</a></div>
PageTwoLinks ==
    [parent |-> <<0, 1, 1>>, tag |-> <<"div", "a", "a">>,
     attrs |-> <<NoAttrs, Href(Id42), Href(Id7)>>,
     text |-> << <<>>, <<"A">>, <<"B">> >>]

\* <div><a href="id=42">A</a></div><div></div>
PageLastEmpty ==
    [parent |-> <<0, 1, 0>>, tag |-> <<"div", "a", "div">>,
     attrs |-> <<NoAttrs, Href(Id42), NoAttrs>>,
     text |-> << <<>>, <<"A">>, <<>> >>]

Id9999999999 == <<"i", "d", "=", "9", "9", "9", "9", "9", "9", "9", "9", "9", "9">>

\* <div><a href="id=9999999999">-9999999999</a></div>
PageBigId ==
    [parent |-> <<0, 1>>, tag |-> <<"div", "a">>,
     attrs |-> <<NoAttrs, Href(Id9999999999)>>,
     text |-> << <<>>, <<"-">> \o SubSeq(Id9999999999, 4, 13) >>]

\* the page behind every URL that can be fetched
Web == <<PageNews, PageFirstBroken, PageLastBroken, PageNoNews, PageTwoLinks,
         PageLastEmpty, PageBigId>>

URLs == {Unreachable} \cup (1..Len(Web))

\* id=(\d+)
ReId == <<Lit("i"), Lit("d"), Lit("="), DigitsAtom(TRUE)>>

\* id=(\d+   which does not compile
ReBroken == <<Lit("i"), Lit("d"), Lit("="), OpenParen, DigitsAtom(FALSE)>>

\* id=\d+
ReNoGroup == <<Lit("i"), Lit("d"), Lit("="), DigitsAtom(FALSE)>>

\* (.+)=(\d+)
ReTwoGroups == <<AnyAtom(TRUE), Lit("="), DigitsAtom(TRUE)>>

\* the matches arrays of the regex nodes
MatchLists ==
    { <<>>,
      << [name |-> "id", type |-> "int"] >>,
      << [name |-> "id", type |-> "string"] >>,
      << [name |-> "id", type |-> "int"], [name |-> "t", type |-> "string"] >>,
      << [name |-> "t", type |-> "string"], [name |-> "id", type |-> "int"] >>,
      << [name |-> "id", type |-> "string"], [name |-> "id", type |-> "int"] >> }

\* regex nodes with no, one and two groups and with no, one and two names
RegexNodes ==
    {[regex |-> re, matches |-> m] :
        re \in {ReNoGroup, ReId, ReTwoGroups}, m \in MatchLists}

StoreNodes ==
    { [copy |-> TRUE, name |-> "t", type |-> "string"],
      [copy |-> TRUE, name |-> "id", type |-> "int"],
      [regex |-> ReId, matches |-> << [name |-> "id", type |-> "int"] >>],
      [regex |-> ReId, matches |-> << [name |-> "id", type |-> "int"],
                                      [name |-> "t", type |-> "string"] >>],
      [regex |-> ReBroken, matches |-> << [name |-> "id", type |-> "int"] >>] }

ValueNodes ==
    {[attr |-> "href", do |-> <<st>>] : st \in StoreNodes}
    \cup {[text |-> TRUE, do |-> <<st>>] : st \in StoreNodes}

InnerNodes ==
    {[find |-> sel, do |-> <<v>>] : sel \in {"a", "p"}, v \in ValueNodes}
    \cup {[search |-> sel, do |-> <<v>>] : sel \in {"a", "p"}, v \in ValueNodes}
    \cup {[find |-> "p", do |-> <<>>]}

TextT == [text |-> TRUE, do |-> << [copy |-> TRUE, name |-> "t", type |-> "string"] >>]

HrefId == [attr |-> "href", do |-> << [copy |-> TRUE, name |-> "id", type |-> "int"] >>]

HrefRe == [attr |-> "href",
           do |-> << [regex |-> ReId, matches |-> << [name |-> "id", type |-> "int"] >>] >>]

\* the do arrays of the outermost node of an items entry
DoLists ==
    {<<n>> : n \in InnerNodes \cup ValueNodes}
    \cup { <<>>,
           <<TextT, HrefRe>>,
           <<[search |-> "a", do |-> <<TextT>>], HrefId>>,
           <<[find |-> "a", do |-> <<HrefRe>>], [find |-> "a", do |-> <<TextT>>]>> }

ItemNodes ==
    {[search |-> sel, do |-> do] : sel \in {"div", "a"}, do \in DoLists}
    \cup {[find |-> sel, do |-> do] : sel \in {"div", "p"}, do \in DoLists}
    \cup {TextT, [xpath |-> "div", do |-> <<>>]}

Template(parts) == [ok |-> TRUE, parts |-> parts]

\* "title": "N{{.id}}", "uri": "/{{.id}}", "description": "{{.t}}"
TemplatesById ==
    [name \in {"title", "uri", "description"} |->
        IF name = "title" THEN Template(<<TLit(<<"N">>), TRef("id")>>)
        ELSE IF name = "uri" THEN Template(<<TLit(<<"/">>), TRef("id")>>)
        ELSE Template(<<TRef("t")>>)]

\* "title": "{{.t}}", "uri": "{{.t}}"
TemplatesByText == [name \in {"title", "uri"} |-> Template(<<TRef("t")>>)]

\* "title": "N", "uri": "/", "author": "{{.t}}"
TemplatesAuthor ==
    [name \in {"title", "uri", "author"} |->
        IF name = "title" THEN Template(<<TLit(<<"N">>)>>)
        ELSE IF name = "uri" THEN Template(<<TLit(<<"/">>)>>)
        ELSE Template(<<TRef("t")>>)]

\* "title": "N", "uri": "/"
TemplatesFixed ==
    [name \in {"title", "uri"} |->
        Template(<<TLit(IF name = "title" THEN <<"N">> ELSE <<"/">>)>>)]

\* "title": "N{{.id}}", "uri": "http://w/{{.id}}"
TemplatesAbsolute ==
    [name \in {"title", "uri"} |->
        IF name = "title" THEN Template(<<TLit(<<"N">>), TRef("id")>>)
        ELSE Template(<<TLit(<<"h", "t", "t", "p", ":", "/", "/", "w", "/">>),
                        TRef("id")>>)]

\* "title": "N{{.id}}"
TemplatesTitleOnly == [name \in {"title"} |-> Template(<<TLit(<<"N">>), TRef("id")>>)]

\* "title": "{{.id"   which does not parse
TemplatesBroken == [name \in {"title"} |-> [ok |-> FALSE, parts |-> <<>>]]

Doc(items, transform) ==
    [syntax |-> TRUE, raw |-> [items |-> items, transform |-> transform]]

\* a transformation definition that is not JSON
DocNotJSON == [syntax |-> FALSE, raw |-> [k \in {} |-> <<>>]]

\* {"items": [...]} and {"transform": {...}}
DocNoTransform == [syntax |-> TRUE, raw |-> [items |-> <<>>]]

DocNoItems == [syntax |-> TRUE, raw |-> [transform |-> TemplatesById]]

Feed(url, transform) == [URL |-> url, Transform |-> transform]

NewsNode == [search |-> "div", do |-> << [find |-> "a", do |-> <<HrefRe>>] >>]

BrokenRegexNode ==
    [search |-> "div",
     do |-> << [find |-> "a",
                do |-> << [attr |-> "href",
                           do |-> << [regex |-> ReBroken,
                                      matches |-> << [name |-> "id",
                                                      type |-> "int"] >>] >>] >>] >>]

\* the feeds of the table feeds that the runs of Spec draw from
Sources ==
    { Feed(1, Doc(<<NewsNode>>, TemplatesById)),
      Feed(1, DocNotJSON),
      Feed(1, DocNoTransform),
      Feed(1, Doc(<<BrokenRegexNode>>, TemplatesById)) }

\* the feeds that the runs of StoreSpec draw from: two different items, the
\* same item twice and a definition that panics
StoreSources ==
    { Feed(1, Doc(<<NewsNode>>, TemplatesById)),
      Feed(1, Doc(<<NewsNode>>, TemplatesFixed)),
      Feed(1, DocNoTransform) }

\* {"xpath": "div", "do": []}: not a selecting node
XPathNode == [xpath |-> "div", do |-> <<>>]

\* a text node whose storing node {"move": true, ...} is neither regex nor copy
TextMoveNode ==
    [text |-> TRUE, do |-> << [move |-> TRUE, name |-> "t", type |-> "string"] >>]

\* nodes of an unknown kind below a search and below a find
UnknownBelow ==
    {[search |-> sel, do |-> <<d>>] : sel \in {"a", "p"}, d \in {XPathNode, TextMoveNode}}
    \cup {[find |-> sel, do |-> <<d>>] : sel \in {"a", "p"}, d \in {XPathNode, TextMoveNode}}

\* nodes with two of the keys search, find, attr and text
TwoKeyNodes ==
    { [search |-> "a", find |-> "p", do |-> <<TextT>>],
      [search |-> "p", find |-> "a", do |-> <<TextT>>],
      [find |-> "a", attr |-> "href", do |-> <<TextT>>],
      [find |-> "a",
       do |-> << [attr |-> "href", text |-> TRUE,
                  do |-> << [copy |-> TRUE, name |-> "t", type |-> "string"] >>] >>] }

\* a search that matches no element of any page
NoNewsNode == [search |-> "p", do |-> <<TextT>>]

\* a search whose elements write a key only if they hold a link
LinksNode == [search |-> "div", do |-> << [search |-> "a", do |-> <<HrefRe>>] >>]

\* "title": "{{.date}}", "uri": "/"
TemplatesDated ==
    [name \in {"title", "uri"} |->
        IF name = "title" THEN Template(<<TRef("date")>>)
        ELSE Template(<<TLit(<<"/">>)>>)]

CopyDate(type) == [copy |-> TRUE, name |-> "date", type |-> type]

\* searches whose elements write the key date, as a string or as an int,
\* for every link or only for the blocks that hold a link
DateNodes ==
    { [search |-> "a", do |-> << [text |-> TRUE, do |-> <<CopyDate("string")>>] >>],
      [search |-> "a", do |-> << [text |-> TRUE, do |-> <<CopyDate("int")>>] >>],
      [search |-> "div",
       do |-> <<TextT,
                [search |-> "a",
                 do |-> << [attr |-> "href",
                            do |-> <<CopyDate("string")>>] >>]>>] }

\* a search for the links themselves
AnchorsNode == [search |-> "a", do |-> <<HrefRe>>]

\* items arrays of two entries
EntryLists ==
    { <<NoNewsNode, NewsNode>>, <<LinksNode, AnchorsNode>>,
      <<NewsNode, NoNewsNode>>, <<NewsNode, XPathNode>> }

\* the feeds that the runs of WalkSpec draw from: one items entry per
\* definition, over every page, and the definitions of two entries
WalkSources ==
    {Feed(url, Doc(l, TemplatesById)) : url \in 1..Len(Web), l \in EntryLists}
    \cup
    {Feed(url, Doc(<<n>>, TemplatesDated)) :
        url \in 1..Len(Web), n \in DateNodes \cup {AnchorsNode, LinksNode, NoNewsNode}}
    \cup
    {Feed(url, Doc(<<n>>, t)) :
        url \in 1..Len(Web), n \in ItemNodes,
        t \in {TemplatesById, TemplatesByText, TemplatesAuthor}}
    \cup {Feed(1, d) : d \in {DocNotJSON, DocNoTransform, DocNoItems,
                              Doc(<<NewsNode>>, TemplatesBroken),
                              Doc(<<NewsNode, TextT>>, TemplatesById),
                              Doc(<<>>, TemplatesById)}}
    \cup {Feed(Unreachable, Doc(<<NewsNode>>, TemplatesById))}
    \cup {Feed(url, Doc(<<n>>, TemplatesById)) :
            url \in 1..Len(Web), n \in UnknownBelow}
    \cup {Feed(url, Doc(<<n>>, TemplatesByText)) :
            url \in 1..Len(Web), n \in TwoKeyNodes}
    \cup {Feed(url, Doc(<<NewsNode>>, t)) :
            url \in 1..Len(Web),
            t \in {TemplatesTitleOnly, TemplatesFixed, TemplatesAbsolute}}
    \cup {Feed(url, Doc(<<[find |-> "a", do |-> <<[attr |-> "href", do |-> <<st>>]>>]>>,
                         TemplatesById)) :
            url \in 1..Len(Web), st \in RegexNodes}
    \cup {Feed(url, Doc(<<[find |-> "a", do |-> <<[text |-> TRUE, do |-> <<st>>]>>]>>,
                         TemplatesById)) :
            url \in 1..Len(Web), st \in RegexNodes}

\* ------------------------------------------------------------------------
\* main: the worker pool
\* ------------------------------------------------------------------------

VARIABLES
    feeds,         \* the result of db.SearchFeeds; feed k has the ID k
    optsWorkers,   \* --workers as given on the command line
    optsTestFile,  \* --test-file: NoTestFile or the page of the file
    pc,            \* where main is: "spawn", "send", "wait", "close", "exit", "exited"
    i,             \* the loop variable i of the loop main is in
    worker,        \* per goroutine: where it is and the feed it holds
    consumeFeeds,  \* number of values buffered in the channel consumeFeeds
    closed,        \* close(feedQueue) has been called
    table,         \* the rows of the table items
    errorLog,      \* the lines printed by logErrorWorker
    result,        \* per feed: what processFeed returned, once it has run
    processed,     \* per feed: number of calls of processFeed
    crashed,       \* a goroutine panicked, which ends the process
    optsMaxOpenConns,  \* --max-open-conns as given on the command line
    openConns,     \* connections held by transactions that were never ended
    dbFaults,      \* number of calls that the database is still going to fail
    dbCall,        \* per feed: the table before CreateItems, the call that
                   \* failed and the error that CreateItems returned
    optsVerbose,   \* --verbose as given on the command line
    stdout,        \* the lines printed by logVerbose
    exitStatus,    \* the status the process has ended with, once it has ended
    feeder         \* what getFeedItems of the server gave for the last request

dbvars == <<optsMaxOpenConns, openConns, dbFaults, dbCall>>

outvars == <<optsVerbose, stdout, exitStatus, feeder>>

vars == <<feeds, optsWorkers, optsTestFile, pc, i, worker, consumeFeeds, closed,
          table, errorLog, result, processed, crashed, dbvars, outvars>>

\* if opts.MaxOpenConns <= 0 { opts.MaxOpenConns = 1 }
MaxOpenConns(c) == IF c <= 0 THEN 1 ELSE c

\* if opts.Workers < 0 { opts.Workers = 1 }
Workers(w) == IF w < 0 THEN 1 ELSE w

\* a wait loop that stops one signal short
WaitCountShort(fs) == Len(fs) - 1

\* for i := 0; i < len(feeds); i++ { <-consumeFeeds }
WaitCount(fs) == Len(fs)

\* a send loop that does not advance
NextFeedSame(k) == k

\* for _, feed := range feeds { feedQueue <- feed }
NextFeed(k) == k + 1

NoResult == [err |-> Nil, panic |-> FALSE, items |-> <<>>, walks |-> <<>>,
             create |-> FALSE]

Idle == [at |-> "none", feed |-> 0]

running == ~crashed /\ pc # "exited"

NoCall == [called |-> FALSE, before |-> EmptyBag, fail |-> NoFailure, err |-> Nil]

InitRun(fs, w, tf, c, faults, t, v) ==
    /\ feeds = fs
    /\ optsWorkers = w
    /\ optsTestFile = tf
    /\ pc = "spawn"
    /\ i = 0
    /\ worker = [id \in 0..(Workers(w) - 1) |-> Idle]
    /\ consumeFeeds = 0
    /\ closed = FALSE
    /\ table = t
    /\ errorLog = {}
    /\ result = [k \in 1..Len(fs) |-> NoResult]
    /\ processed = [k \in 1..Len(fs) |-> 0]
    /\ crashed = FALSE
    /\ optsMaxOpenConns = c
    /\ openConns = 0
    /\ dbFaults = faults
    /\ dbCall = [k \in 1..Len(fs) |-> NoCall]
    /\ optsVerbose = v
    /\ stdout = <<>>
    /\ exitStatus = NoStatus
    /\ feeder = NoFeeder

\* --test-file with the content of PageTwoLinks
TestFile == 5

\* the runs against a database that answers every call, with the default
\* of --max-open-conns
Init ==
    \E n \in 0..MaxFeeds : \E fs \in [1..n -> Sources] :
    \E w \in (0 - 1)..MaxWorkers : \E tf \in {NoTestFile, TestFile} :
        InitRun(fs, w, tf, 10, 0, EmptyBag, FALSE)

InitWalk ==
    \E f \in WalkSources : \E v \in BOOLEAN :
        InitRun(<<f>>, 1, NoTestFile, 10, 0, EmptyBag, v)

\* the table items that an earlier run over the same feeds may have left
Earlier(fs) ==
    {EmptyBag}
    \cup {CreateItems(EmptyBag, 1, r.items, NoFailure).table :
            r \in {x \in {processFeed(fs[1], Web, NoTestFile)} : x.create}}

\* the runs over MaxFeeds feeds against a database that may fail up to
\* MaxFaults calls, with the smallest or the largest pool of connections
InitStore ==
    \E fs \in [1..MaxFeeds -> StoreSources] :
    \E w \in 1..MaxStoreWorkers : \E c \in {0, MaxConns} : \E t \in Earlier(fs) :
        InitRun(fs, w, NoTestFile, c, MaxFaults, t, FALSE)

\* go func(id int, ...) {...}(i, feedQueue, consumeFeeds)
Spawn ==
    /\ running /\ pc = "spawn" /\ i < Workers(optsWorkers)
    /\ worker' = [worker EXCEPT ![i] = [at |-> "recv", feed |-> 0]]
    /\ i' = i + 1
    /\ UNCHANGED <<feeds, optsWorkers, optsTestFile, pc, consumeFeeds, closed,
                   table, errorLog, result, processed, crashed, dbvars, outvars>>

SpawnDone ==
    /\ running /\ pc = "spawn" /\ ~(i < Workers(optsWorkers))
    /\ pc' = "send"
    /\ i' = 0
    /\ UNCHANGED <<feeds, optsWorkers, optsTestFile, worker, consumeFeeds, closed,
                   table, errorLog, result, processed, crashed, dbvars, outvars>>

\* feedQueue <- feed in main meets feed, ok := <-feedQueue in worker id:
\* the channel has no buffer
Send(id) ==
    /\ running /\ pc = "send" /\ i < Len(feeds)
    /\ worker[id].at = "recv" /\ ~closed
    /\ worker' = [worker EXCEPT ![id] = [at |-> "process", feed |-> i + 1]]
    /\ i' = NextFeed(i)
    /\ UNCHANGED <<feeds, optsWorkers, optsTestFile, pc, consumeFeeds, closed,
                   table, errorLog, result, processed, crashed, dbvars, outvars>>

SendDone ==
    /\ running /\ pc = "send" /\ ~(i < Len(feeds))
    /\ pc' = "wait"
    /\ i' = 0
    /\ UNCHANGED <<feeds, optsWorkers, optsTestFile, worker, consumeFeeds, closed,
                   table, errorLog, result, processed, crashed, dbvars, outvars>>

\* the calls of CreateItems that the database may fail now
Failures(items) ==
    IF dbFaults > 0 THEN BeginFails..CommitFails(items) ELSE {NoFailure}

\* err := processFeed(&feed, id); if err != nil { logErrorWorker(...) }
\* p.Db.Begin() waits until the pool has a connection to give.
Process(id) ==
    /\ running /\ worker[id].at = "process"
    /\ \E k \in {worker[id].feed} :
       \E r \in {processFeed(feeds[k], Web, optsTestFile)} :
           /\ ~r.panic
           /\ IF r.create
              THEN /\ openConns < MaxOpenConns(optsMaxOpenConns)
                   /\ \E fail \in Failures(r.items) :
                      \E c \in {CreateItems(table, k, r.items, fail)} :
                      \E e \in {IF c.err # Nil
                                THEN "cannot insert items into database"
                                ELSE Nil} :
                          /\ table' = c.table
                          /\ openConns' = IF c.open THEN openConns + 1 ELSE openConns
                          /\ dbFaults' = IF c.err # Nil THEN dbFaults - 1 ELSE dbFaults
                          /\ dbCall' = [dbCall EXCEPT ![k] =
                                           [called |-> TRUE, before |-> table,
                                            fail |-> fail, err |-> c.err]]
                          /\ result' = [result EXCEPT ![k] = [r EXCEPT !.err = e]]
                          /\ errorLog' = IF e # Nil
                                         THEN errorLog
                                              \cup {[feed |-> k, worker |-> id, msg |-> e]}
                                         ELSE errorLog
              ELSE /\ result' = [result EXCEPT ![k] = r]
                   /\ errorLog' = IF r.err # Nil
                                  THEN errorLog
                                       \cup {[feed |-> k, worker |-> id, msg |-> r.err]}
                                  ELSE errorLog
                   /\ UNCHANGED <<table, openConns, dbFaults, dbCall>>
           /\ processed' = [processed EXCEPT ![k] = @ + 1]
           /\ stdout' = stdout \o VerboseLines(optsVerbose, feeds[k], Web,
                                                optsTestFile)
    /\ worker' = [worker EXCEPT ![id].at = "signal"]
    /\ UNCHANGED <<feeds, optsWorkers, optsTestFile, pc, i, consumeFeeds, closed,
                   crashed, optsMaxOpenConns, optsVerbose, exitStatus,
                   feeder>>

\* processFeed panics: nothing recovers, the runtime ends the process
Panic(id) ==
    /\ running /\ worker[id].at = "process"
    /\ \E k \in {worker[id].feed} :
       \E r \in {processFeed(feeds[k], Web, optsTestFile)} :
           /\ r.panic
           /\ result' = [result EXCEPT ![k] = r]
           /\ processed' = [processed EXCEPT ![k] = @ + 1]
           /\ stdout' = stdout \o VerboseLines(optsVerbose, feeds[k], Web,
                                                optsTestFile)
    /\ worker' = [worker EXCEPT ![id].at = "panicked"]
    /\ crashed' = TRUE
    /\ exitStatus' = PanicStatus
    /\ UNCHANGED <<feeds, optsWorkers, optsTestFile, pc, i, consumeFeeds, closed,
                   table, errorLog, dbvars, optsVerbose, feeder>>

\* consumeFeeds <- true; the channel has room for len(feeds) values
Signal(id) ==
    /\ running /\ worker[id].at = "signal"
    /\ consumeFeeds < Len(feeds)
    /\ consumeFeeds' = consumeFeeds + 1
    /\ worker' = [worker EXCEPT ![id] = [at |-> "recv", feed |-> 0]]
    /\ UNCHANGED <<feeds, optsWorkers, optsTestFile, pc, i, closed, table,
                   errorLog, result, processed, crashed, dbvars, outvars>>

\* <-consumeFeeds
Receive ==
    /\ running /\ pc = "wait" /\ i < WaitCount(feeds)
    /\ consumeFeeds > 0
    /\ consumeFeeds' = consumeFeeds - 1
    /\ i' = i + 1
    /\ UNCHANGED <<feeds, optsWorkers, optsTestFile, pc, worker, closed, table,
                   errorLog, result, processed, crashed, dbvars, outvars>>

WaitDone ==
    /\ running /\ pc = "wait" /\ ~(i < WaitCount(feeds))
    /\ pc' = "close"
    /\ UNCHANGED <<feeds, optsWorkers, optsTestFile, i, worker, consumeFeeds,
                   closed, table, errorLog, result, processed, crashed, dbvars, outvars>>

\* close(feedQueue)
Close ==
    /\ running /\ pc = "close"
    /\ closed' = TRUE
    /\ pc' = "exit"
    /\ UNCHANGED <<feeds, optsWorkers, optsTestFile, i, worker, consumeFeeds,
                   table, errorLog, result, processed, crashed, dbvars, outvars>>

\* feed, ok := <-feedQueue with ok false: return
Return(id) ==
    /\ running /\ worker[id].at = "recv" /\ closed
    /\ worker' = [worker EXCEPT ![id].at = "returned"]
    /\ UNCHANGED <<feeds, optsWorkers, optsTestFile, pc, i, consumeFeeds, closed,
                   table, errorLog, result, processed, crashed, dbvars, outvars>>

\* os.Exit(ReturnOk)
Exit ==
    /\ running /\ pc = "exit"
    /\ pc' = "exited"
    /\ exitStatus' = ReturnOk
    /\ UNCHANGED <<feeds, optsWorkers, optsTestFile, i, worker, consumeFeeds,
                   closed, table, errorLog, result, processed, crashed, dbvars,
                   optsVerbose, stdout, feeder>>

\* a request for the items of feed k reaches the server once the crawler
\* has ended
Serve(k) ==
    /\ ~running
    /\ \E r \in {getFeedItems(k, feeds[k].URL, table)} :
          feeder' = [feed |-> k, panic |-> r.panic, links |-> r.links]
    /\ UNCHANGED <<feeds, optsWorkers, optsTestFile, pc, i, worker, consumeFeeds,
                   closed, table, errorLog, result, processed, crashed, dbvars,
                   optsVerbose, stdout, exitStatus>>

Next ==
    \/ Spawn
    \/ SpawnDone
    \/ \E id \in DOMAIN worker : Send(id)
    \/ SendDone
    \/ \E id \in DOMAIN worker : Process(id)
    \/ \E id \in DOMAIN worker : Panic(id)
    \/ \E id \in DOMAIN worker : Signal(id)
    \/ Receive
    \/ WaitDone
    \/ Close
    \/ \E id \in DOMAIN worker : Return(id)
    \/ Exit
    \/ \E k \in 1..Len(feeds) : Serve(k)

Spec == Init /\ [][Next]_vars

\* every goroutine that can run is run
FairSpec == Spec /\ WF_vars(Next)

WalkSpec == InitWalk /\ [][Next]_vars

StoreSpec == InitStore /\ [][Next]_vars

StoreFairSpec == StoreSpec /\ WF_vars(Next)

\* ------------------------------------------------------------------------
\* Properties of the worker pool
\* ------------------------------------------------------------------------

Holders(k) == {id \in DOMAIN worker : worker[id].feed = k}

Reported(k) == \E e \in errorLog : e.feed = k

Persisted(k, items) == \A j \in 1..Len(items) : BagIn(Row(k, items[j]), table)

RowsOf(k) == {r \in BagToSet(table) : r.feed = k}

MainDone == pc \in {"close", "exit", "exited"}

\* every call of processFeed of this run returns
ProcessReturns ==
    \A k \in 1..Len(feeds) : ~processFeed(feeds[k], Web, optsTestFile).panic

AllSignalsReceived ==
    /\ i = Len(feeds)
    /\ consumeFeeds = 0
    /\ \A k \in 1..Len(feeds) : processed[k] = 1 /\ Holders(k) = {}

\* C3: with at least one worker and every processFeed call returning, main
\* eventually exits, and whenever main has left its wait loop it has
\* received exactly len(feeds) completion signals, one per feed, each feed
\* having been processed, whether with or without an error.
C3_SchedulerTerminates ==
    /\ [](MainDone => AllSignalsReceived)
    /\ ((Workers(optsWorkers) >= 1 /\ ProcessReturns) ~> (pc = "exited"))

\* main has exited after a run of several feeds, one of which failed and one
\* of which did not
C3_Witness ==
    /\ pc = "exited" /\ Len(feeds) >= 2
    /\ \E k \in 1..Len(feeds) : result[k].err # Nil
    /\ \E k \in 1..Len(feeds) : result[k].err = Nil /\ result[k].items # <<>>

\* C4: a feed is held by at most one worker at any time, processFeed is
\* called at most once per feed, a worker that is about to call processFeed
\* holds a feed that has not been processed, and when main has left its wait
\* loop every feed has been processed exactly once.
C4_OneWorkerPerFeed ==
    /\ \A k \in 1..Len(feeds) :
          /\ Cardinality(Holders(k)) <= 1
          /\ processed[k] <= 1
          /\ \A id \in Holders(k) : worker[id].at = "process" => processed[k] = 0
    /\ MainDone => \A k \in 1..Len(feeds) : processed[k] = 1

\* two workers are inside processFeed at the same time, on different feeds
C4_Witness ==
    \E a, b \in DOMAIN worker :
        /\ a # b
        /\ worker[a].at = "process" /\ worker[b].at = "process"
        /\ worker[a].feed # worker[b].feed

\* ------------------------------------------------------------------------
\* What a transformation definition and a page ought to give
\* ------------------------------------------------------------------------

Range(seq) == {seq[k] : k \in 1..Len(seq)}

\* the page that processFeed transforms for feed k
PageOf(k) == IF optsTestFile # NoTestFile THEN Web[optsTestFile] ELSE Web[feeds[k].URL]

\* processFeed gets as far as the loop over the items entries of feed k
ReachesItems(k) ==
    /\ feeds[k].Transform.syntax
    /\ {"items", "transform"} \subseteq DOMAIN feeds[k].Transform.raw
    /\ \A name \in DOMAIN feeds[k].Transform.raw.transform :
          feeds[k].Transform.raw.transform[name].ok
    /\ optsTestFile # NoTestFile \/ feeds[k].URL # Unreachable

Entries(k) == feeds[k].Transform.raw.items

MalformedMatch(m) ==
    \/ ~({"name", "type"} \subseteq DOMAIN m)
    \/ m.type \notin {"int", "string"}

\* a storing node that is not a regex or copy node as the README defines them
MalformedStore(n) ==
    IF "regex" \in DOMAIN n
    THEN \/ "matches" \notin DOMAIN n
         \/ ~CompileOk(n.regex)
         \/ \E m \in Range(n.matches) : MalformedMatch(m)
    ELSE IF "copy" \in DOMAIN n
    THEN MalformedMatch(n)
    ELSE TRUE

\* a selecting node that is not a search, find, attr or text node as the
\* README defines them
RECURSIVE MalformedSelect(_)
MalformedSelect(n) ==
    \/ Cardinality(DOMAIN n \cap {"search", "find", "attr", "text"}) # 1
    \/ "do" \notin DOMAIN n
    \/ IF DOMAIN n \cap {"search", "find"} # {}
       THEN \E d \in Range(n.do) : MalformedSelect(d)
       ELSE \E d \in Range(n.do) : MalformedStore(d)

MalformedDoc(t) ==
    \/ ~t.syntax
    \/ ~({"items", "transform"} \subseteq DOMAIN t.raw)
    \/ \E name \in DOMAIN t.raw.transform :
          ~t.raw.transform[name].ok \/ name \notin {"title", "uri", "description"}
    \/ \E n \in Range(t.raw.items) : MalformedSelect(n)

ExtractionErrors == {"no attribute found", "no matches found", "unequal match count"}

\* the errors that walking node on element raises when the walk of an
\* element stops at the first error raised in it and every matched element
\* of a search is walked
RECURSIVE Raised(_, _, _)
RECURSIVE RaisedDo(_, _, _, _)
Raised(page, element, node) ==
    IF DOMAIN node \cap {"search", "find", "attr", "text"} = {}
    THEN {"do not know how to transform"}
    ELSE IF "do" \notin DOMAIN node THEN {"select node needs a do attribute"}
    ELSE IF "search" \in DOMAIN node
    THEN UNION {RaisedDo(page, <<e>>, node.do, 1) :
                   e \in Range(Find(page, element, node.search))}
    ELSE IF "find" \in DOMAIN node
    THEN RaisedDo(page, Find(page, element, node.find), node.do, 1)
    ELSE IF "attr" \in DOMAIN node
    THEN Bind(Attr(page, element, node.attr),
              LAMBDA a : IF ~a.ok THEN {"no attribute found"}
                         ELSE {StoreDo(a.value, node.do, 1, <<EmptyMap>>).err} \ {Nil})
    ELSE {StoreDo(Text(page, element), node.do, 1, <<EmptyMap>>).err} \ {Nil}

RaisedDo(page, s, do, j) ==
    IF j > Len(do) THEN {}
    ELSE Bind(Raised(page, s, do[j]),
              LAMBDA x : IF x # {} THEN x ELSE RaisedDo(page, s, do, j + 1))

\* feed k is one whose processing has to fail: its definition is malformed,
\* its URL cannot be fetched or walking its page raises an error
ShouldFail(k) ==
    \/ MalformedDoc(feeds[k].Transform)
    \/ optsTestFile = NoTestFile /\ feeds[k].URL = Unreachable
    \/ \E n \in Range(Entries(k)) : Raised(PageOf(k), <<0>>, n) # {}

\* ------------------------------------------------------------------------
\* Properties of error isolation
\* ------------------------------------------------------------------------

\* C1: in a run with at least one worker that saves its items, no goroutine
\* ends the process, and when main has exited an error has been logged for
\* exactly the feeds that have to fail and the items of every other feed
\* are rows of the table.
C1_WorkerPoolIsolation ==
    (Workers(optsWorkers) >= 1 /\ optsTestFile = NoTestFile) =>
        /\ ~crashed
        /\ pc = "exited" =>
              \A k \in 1..Len(feeds) :
                  /\ Reported(k) <=> ShouldFail(k)
                  /\ ~ShouldFail(k) =>
                        result[k].create /\ Persisted(k, result[k].items)

\* C2: once processFeed has met a failure for feed k, the process is still
\* running, the error has been logged with the feed and the worker, and the
\* worker that holds the feed is about to send its completion signal.
C2_FailureNeverTerminates ==
    \A k \in 1..Len(feeds) :
        (processed[k] >= 1 /\ (result[k].err # Nil \/ result[k].panic)) =>
            /\ ~crashed
            /\ \E e \in errorLog : e.feed = k /\ e.worker \in DOMAIN worker
            /\ \A id \in Holders(k) : worker[id].at = "signal"

\* C5: processFeed of a definition that is JSON but has no items member or
\* no transform member returns an error, and the process goes on running.
C5_MissingMemberFails ==
    \A k \in 1..Len(feeds) :
        (/\ processed[k] >= 1
         /\ feeds[k].Transform.syntax
         /\ ~({"items", "transform"} \subseteq DOMAIN feeds[k].Transform.raw)) =>
            result[k].err # Nil /\ ~result[k].panic /\ ~crashed

\* C6: when walking an items entry that is a search node raises an
\* extraction error in any matched element, processFeed returns an error
\* and the table holds no row of the feed.
C6_ExtractionErrorIsFatal ==
    \A k \in 1..Len(feeds) :
        (/\ processed[k] >= 1 /\ ~result[k].panic /\ ReachesItems(k)
         /\ \E n \in Range(Entries(k)) :
               /\ "search" \in DOMAIN n
               /\ Raised(PageOf(k), <<0>>, n) \cap ExtractionErrors # {}) =>
            result[k].err # Nil /\ RowsOf(k) = {}

\* ------------------------------------------------------------------------
\* Properties of the interpreter
\* ------------------------------------------------------------------------

Fresh == [vals |-> <<EmptyMap>>, err |-> Nil, panic |-> FALSE]

\* the map that the nodes of do write when they walk selection s alone
Alone(page, s, do) == SelectDo(page, s, do, 1, Fresh).vals[1]

\* the first items entry of feed k has been walked
Walked(k) == processed[k] >= 1 /\ ReachesItems(k) /\ Len(result[k].walks) >= 1

\* C7: when the first items entry is a search that matches K >= 1 elements,
\* each of whose walks writes at least one key, and crawlSelect returns no
\* error, it returns K maps and map j holds only what the walk of element j
\* wrote.
C7_OneMapPerElement ==
    \A k \in 1..Len(feeds) :
        Walked(k) =>
            LET n     == Entries(k)[1]
                r     == result[k].walks[1]
                nodes == Find(PageOf(k), <<0>>, n.search)
            IN  (/\ "search" \in DOMAIN n /\ "do" \in DOMAIN n
                 /\ ~r.panic /\ r.err = Nil
                 /\ nodes # <<>>
                 /\ \A j \in 1..Len(nodes) :
                       DOMAIN Alone(PageOf(k), <<nodes[j]>>, n.do) # {}) =>
                    /\ Len(r.vals) = Len(nodes)
                    /\ \A j \in 1..Len(nodes) :
                          \A key \in DOMAIN r.vals[j] :
                             /\ key \in DOMAIN Alone(PageOf(k), <<nodes[j]>>, n.do)
                             /\ r.vals[j][key] =
                                   Alone(PageOf(k), <<nodes[j]>>, n.do)[key]

\* C8: an items entry that is a find node whose selector matches no element
\* makes crawlSelect return an error, whatever its do holds; one that is a
\* search node whose selector matches no element makes it return none.
C8_FindNeedsAMatch ==
    \A k \in 1..Len(feeds) :
        Walked(k) =>
            LET n == Entries(k)[1]
                r == result[k].walks[1]
            IN  /\ (/\ "find" \in DOMAIN n /\ "search" \notin DOMAIN n
                    /\ "do" \in DOMAIN n /\ ~r.panic
                    /\ Find(PageOf(k), <<0>>, n.find) = <<>>) => r.err # Nil
                /\ (/\ "search" \in DOMAIN n /\ "do" \in DOMAIN n
                    /\ Find(PageOf(k), <<0>>, n.search) = <<>>) =>
                       r.err = Nil /\ ~r.panic

\* every search and find selector below node matches no element of the page
RECURSIVE MatchesNothing(_, _)
MatchesNothing(page, n) ==
    /\ "search" \in DOMAIN n => Find(page, <<0>>, n.search) = <<>>
    /\ "find" \in DOMAIN n => Find(page, <<0>>, n.find) = <<>>
    /\ (DOMAIN n \cap {"search", "find"} # {} /\ "do" \in DOMAIN n) =>
          \A d \in Range(n.do) : MatchesNothing(page, d)

NothingYielded(k) ==
    /\ result[k].err = Nil /\ ~result[k].panic
    /\ result[k].items = <<>>
    /\ RowsOf(k) = {}

\* C9 as it is stated: for a well-formed definition whose items entries are
\* search and find nodes and all of whose search and find selectors match no
\* element, processFeed returns no error, builds no item and adds no row.
C9_AsStated ==
    \A k \in 1..Len(feeds) :
        (/\ processed[k] >= 1 /\ ReachesItems(k)
         /\ ~MalformedDoc(feeds[k].Transform)
         /\ \A n \in Range(Entries(k)) :
               /\ DOMAIN n \cap {"search", "find"} # {}
               /\ MatchesNothing(PageOf(k), n)) =>
            NothingYielded(k)

\* C9: for a well-formed definition all of whose items entries are search
\* nodes whose selector matches no element, processFeed returns no error,
\* builds no item and adds no row.
C9_NoMatchNoItem ==
    \A k \in 1..Len(feeds) :
        (/\ processed[k] >= 1 /\ ReachesItems(k)
         /\ ~MalformedDoc(feeds[k].Transform)
         /\ \A n \in Range(Entries(k)) :
               "search" \in DOMAIN n /\ Find(PageOf(k), <<0>>, n.search) = <<>>) =>
            NothingYielded(k)

\* a definition whose only entry is a search that matches nothing has been
\* processed and db.CreateItems has been called with no item
C9_Witness ==
    \E k \in 1..Len(feeds) :
        /\ processed[k] = 1 /\ ReachesItems(k) /\ result[k].create
        /\ ~MalformedDoc(feeds[k].Transform)
        /\ Len(Entries(k)) = 1 /\ "search" \in DOMAIN Entries(k)[1]
        /\ Entries(k)[1].do # <<>>
        /\ Find(PageOf(k), <<0>>, Entries(k)[1].search) = <<>>
        /\ result[k].items = <<>>

\* C10: when the selector of an items entry that is a find node matches
\* elements, crawlSelect returns what walking one of the matched elements
\* alone gives: the same maps and the same error.
C10_FindSelectsOneElement ==
    \A k \in 1..Len(feeds) :
        Walked(k) =>
            LET n     == Entries(k)[1]
                r     == result[k].walks[1]
                nodes == Find(PageOf(k), <<0>>, n.find)
            IN  (/\ "find" \in DOMAIN n /\ "search" \notin DOMAIN n
                 /\ "do" \in DOMAIN n /\ nodes # <<>>) =>
                    \E e \in Range(nodes) :
                        r = SelectDo(PageOf(k), <<e>>, n.do, 1, Fresh)

\* ------------------------------------------------------------------------
\* Properties of CreateItems
\* ------------------------------------------------------------------------

\* the rows of feed k in a table
OfFeed(bag, k) == [r \in {x \in DOMAIN bag : x.feed = k} |-> bag[r]]

\* the table after one call of CreateItems for feed k on an empty table
Once(k) == CreateItems(EmptyBag, k, result[k].items, NoFailure).table

\* CreateItems was called for feed k and returned nil
Stored(k) == dbCall[k].called /\ dbCall[k].err = Nil

\* CreateItems was called for feed k and returned an error
StoreFailed(k) == dbCall[k].called /\ dbCall[k].err # Nil

\* C11: after CreateItems has returned nil for a feed, every item of the list
\* is in the table exactly once (also an item that the list holds twice), a
\* call on a table that already held what one call leaves has left the same
\* rows, and one more call with the same list would change nothing.
C11_CreateItemsIdempotent ==
    \A k \in 1..Len(feeds) :
        Stored(k) =>
            /\ \A j \in 1..Len(result[k].items) :
                  CopiesIn(Row(k, result[k].items[j]), table) = 1
            /\ OfFeed(dbCall[k].before, k) = Once(k) => OfFeed(table, k) = Once(k)
            /\ CreateItems(table, k, result[k].items, NoFailure).table = table

\* a list with the same item twice has been stored on top of the rows that
\* an earlier call with the same list had left
C11_Witness ==
    \E k \in 1..Len(feeds) :
        /\ Stored(k)
        /\ Len(result[k].items) = 2 /\ result[k].items[1] = result[k].items[2]
        /\ dbCall[k].before # EmptyBag
        /\ OfFeed(dbCall[k].before, k) = Once(k)

\* C12: when CreateItems returns an error for a feed, the table holds of
\* that feed exactly the rows it held before the call: no item of the list
\* has become visible.
C12_AllOrNothing ==
    \A k \in 1..Len(feeds) :
        StoreFailed(k) => OfFeed(table, k) = OfFeed(dbCall[k].before, k)

\* the insert of the second of two different new items has failed, after
\* the insert of the first one had been executed
C12_Witness ==
    \E k \in 1..Len(feeds) :
        /\ StoreFailed(k) /\ dbCall[k].fail = 2
        /\ Len(result[k].items) = 2 /\ result[k].items[1] # result[k].items[2]
        /\ ~BagIn(Row(k, result[k].items[1]), dbCall[k].before)

\* feed k has an error line saying that the items could not be inserted
InsertReported(k) ==
    \E e \in errorLog : e.feed = k /\ e.msg = "cannot insert items into database"

\* C13: an error of CreateItems is logged for the feed it belongs to and for
\* no other, and a run with at least one worker and no panic eventually
\* exits, whatever calls the database fails and however few connections
\* the pool may open.
C13_StoreFailureIsSurvived ==
    /\ [](\A k \in 1..Len(feeds) :
            processed[k] = 1 => (InsertReported(k) <=> StoreFailed(k)))
    /\ ((Workers(optsWorkers) >= 1 /\ ProcessReturns) ~> (pc = "exited"))

\* ------------------------------------------------------------------------
\* Properties of the items of a feed
\* ------------------------------------------------------------------------

\* the maps that crawlSelect returned for the items entries of feed k
MapsOf(k) ==
    UNION {Range(result[k].walks[e].vals) : e \in 1..Len(result[k].walks)}

\* C14: every item that processFeed hands to CreateItems, and so every row
\* of the table, has a title and a URI that are not empty; a definition
\* without a template for title or without one for uri hands over no item.
C14_ItemsAreValid ==
    /\ \A k \in 1..Len(feeds) :
          processed[k] = 1 =>
             /\ \A j \in 1..Len(result[k].items) :
                   result[k].items[j].Title # <<>> /\ result[k].items[j].URI # <<>>
             /\ (ReachesItems(k)
                 /\ {"title", "uri"} \ DOMAIN feeds[k].Transform.raw.transform # {})
                    => result[k].items = <<>>
    /\ \A row \in BagToSet(table) : row.title # <<>> /\ row.uri # <<>>

\* CreateItems was called with an item of one element of the page while
\* the map of another element, which renders an empty title, gave no item
C14_Witness ==
    \E k \in 1..Len(feeds) :
        /\ result[k].create /\ Len(result[k].items) = 1 /\ table # EmptyBag
        /\ \E m \in MapsOf(k) :
              Field(feeds[k].Transform.raw.transform, "title", m) = <<>>

\* ------------------------------------------------------------------------
\* Properties of the storing nodes
\* ------------------------------------------------------------------------

\* the first items entry of feed k is a find node whose selector matches and
\* whose do array is one attr or text node with one storing node, and the
\* value for the storing node exists
StoreCase(k) ==
    /\ Walked(k)
    /\ LET n == Entries(k)[1]
       IN  /\ "find" \in DOMAIN n /\ "search" \notin DOMAIN n /\ "do" \in DOMAIN n
           /\ Find(PageOf(k), <<0>>, n.find) # <<>>
           /\ Len(n.do) = 1
           /\ {"search", "find"} \cap DOMAIN n.do[1] = {}
           /\ {"attr", "text"} \cap DOMAIN n.do[1] # {}
           /\ "do" \in DOMAIN n.do[1] /\ Len(n.do[1].do) = 1
           /\ "attr" \in DOMAIN n.do[1]
                 => Attr(PageOf(k), Find(PageOf(k), <<0>>, n.find), n.do[1].attr).ok

\* the storing node of such an entry
StoreNodeOf(k) == Entries(k)[1].do[1].do[1]

\* the value that the storing node is applied to
ValueOf(k) ==
    LET n == Entries(k)[1]
        s == Find(PageOf(k), <<0>>, n.find)
    IN  IF "attr" \in DOMAIN n.do[1] THEN Attr(PageOf(k), s, n.do[1].attr).value
        ELSE Text(PageOf(k), s)

\* what crawlSelect returned for the entry
StoredBy(k) == result[k].walks[1]

\* feed k applies a regex node with a matches array and a pattern that
\* compiles
RegexCase(k) ==
    /\ StoreCase(k)
    /\ {"regex", "matches"} \subseteq DOMAIN StoreNodeOf(k)
    /\ CompileOk(StoreNodeOf(k).regex)

\* s is an optional sign followed by decimal digits
IsNumeral(s) ==
    /\ s # <<>>
    /\ IF Head(s) \in {"+", "-"}
       THEN Len(s) >= 2 /\ \A j \in 2..Len(s) : IsDigit(s[j])
       ELSE \A j \in 1..Len(s) : IsDigit(s[j])

\* the value that a node of type typ stores for the text s
Typed(typ, s) == IF typ = "int" THEN IntValue(Atoi(s).n) ELSE StringValue(s)

\* C15: a regex node whose pattern has a number of capture groups other than
\* the length of its matches array returns an error and leaves the map
\* empty; when the numbers are equal and the pattern matches the value, it
\* returns no error and the map holds under the name of match i the text of
\* group i, converted to the type of match i (for a name that occurs twice,
\* of the last match with that name).
C15_RegexMatchCount ==
    \A k \in 1..Len(feeds) :
        RegexCase(k) =>
            LET st == StoreNodeOf(k)
                r  == StoredBy(k)
                m  == FindStringSubmatch(st.regex, ValueOf(k))
            IN  /\ NumSubexp(st.regex) # Len(st.matches)
                      => r.err # Nil /\ ~r.panic /\ r.vals = <<EmptyMap>>
                /\ (NumSubexp(st.regex) = Len(st.matches) /\ m.ok)
                      => /\ r.err = Nil /\ ~r.panic /\ Len(r.vals) = 1
                         /\ DOMAIN r.vals[1] = {st.matches[j].name :
                                                  j \in 1..Len(st.matches)}
                         /\ \A j \in 1..Len(st.matches) :
                               (\A l \in (j + 1)..Len(st.matches) :
                                   st.matches[l].name # st.matches[j].name)
                               => r.vals[1][st.matches[j].name]
                                  = Typed(st.matches[j].type, m.groups[j])

\* a pattern with two groups that matches the value has met a matches array
\* with one name
C15_Witness ==
    \E k \in 1..Len(feeds) :
        /\ RegexCase(k)
        /\ NumSubexp(StoreNodeOf(k).regex) = 2 /\ Len(StoreNodeOf(k).matches) = 1
        /\ FindStringSubmatch(StoreNodeOf(k).regex, ValueOf(k)).ok
        /\ StoredBy(k).err = "unequal match count"

\* the texts that storing node st of type int or string converts, with the
\* name each is stored under
Conversions(k) ==
    LET st == StoreNodeOf(k)
    IN  IF "copy" \in DOMAIN st
        THEN {[name |-> st.name, type |-> st.type, text |-> ValueOf(k)]}
        ELSE LET m == FindStringSubmatch(st.regex, ValueOf(k))
             IN  IF m.ok /\ Len(m.groups) = Len(st.matches)
                 THEN {[name |-> st.matches[j].name, type |-> st.matches[j].type,
                        text |-> m.groups[j]] :
                          j \in {l \in 1..Len(st.matches) :
                                   \A h \in (l + 1)..Len(st.matches) :
                                      st.matches[h].name # st.matches[l].name}}
                 ELSE {}

\* feed k applies a copy node or a regex node that stores
ConvertCase(k) ==
    /\ StoreCase(k)
    /\ \/ {"copy", "name", "type"} \subseteq DOMAIN StoreNodeOf(k)
       \/ RegexCase(k)
    /\ Conversions(k) # {}

UnknownField(k) ==
    DOMAIN feeds[k].Transform.raw.transform \ {"description", "title", "uri"} # {}

\* C17: when the transform member names a field other than title, uri and
\* description, processFeed returns an error, whatever the page holds.
C17_UnknownFieldFails ==
    \A k \in 1..Len(feeds) :
        (processed[k] = 1 /\ ReachesItems(k) /\ UnknownField(k) /\ ~result[k].panic)
            => result[k].err # Nil

\* node n or a node below it is of no known kind: a selecting node without
\* search, find, attr and text, or a storing node without regex and copy
RECURSIVE UnknownKind(_)
UnknownKind(n) ==
    \/ DOMAIN n \cap {"search", "find", "attr", "text"} = {}
    \/ /\ "do" \in DOMAIN n
       /\ IF DOMAIN n \cap {"search", "find"} # {}
          THEN \E d \in Range(n.do) : UnknownKind(d)
          ELSE \E d \in Range(n.do) : DOMAIN d \cap {"regex", "copy"} = {}

\* C18: when an items entry holds a node of no known kind, at whatever
\* depth, processFeed returns an error, whatever the page holds.
C18_UnknownKindFails ==
    \A k \in 1..Len(feeds) :
        (/\ processed[k] = 1 /\ ReachesItems(k) /\ ~result[k].panic
         /\ \E n \in Range(Entries(k)) : UnknownKind(n))
            => result[k].err # Nil

\* the keys of node n that name a kind of selecting node
KindKeys(n) == DOMAIN n \cap {"search", "find", "attr", "text"}

\* node n or a selecting node below it has two or more such keys
RECURSIVE ManyKinds(_)
ManyKinds(n) ==
    \/ Cardinality(KindKeys(n)) >= 2
    \/ /\ "do" \in DOMAIN n /\ DOMAIN n \cap {"search", "find"} # {}
       /\ \E d \in Range(n.do) : ManyKinds(d)

\* the first key of n in the order search, find, attr, text
FirstKind(n) ==
    IF "search" \in DOMAIN n THEN "search"
    ELSE IF "find" \in DOMAIN n THEN "find"
    ELSE IF "attr" \in DOMAIN n THEN "attr"
    ELSE "text"

\* node n with every selecting node reduced to the first of its kinds
RECURSIVE Strip(_)
Strip(n) ==
    IF KindKeys(n) = {} THEN n
    ELSE [key \in (DOMAIN n \ KindKeys(n)) \cup {FirstKind(n)} |->
             IF key = "do" /\ FirstKind(n) \in {"search", "find"}
             THEN [j \in 1..Len(n.do) |-> Strip(n.do[j])]
             ELSE n[key]]

\* C19 as stated: an items entry with none of the keys search, find, attr
\* and text, and one with two or more of them, makes crawlSelect return an
\* error.
C19_AsStated ==
    \A k \in 1..Len(feeds) :
        (Walked(k) /\ Cardinality(KindKeys(Entries(k)[1])) # 1)
            => result[k].walks[1].err # Nil

\* C19: an items entry with none of the keys search, find, attr and text
\* makes crawlSelect return the error "do not know how to transform"; for an
\* entry in which a selecting node has two or more of them crawlSelect
\* returns what it returns for the entry with every node reduced to the
\* first of its keys in the order search, find, attr, text.
C19_FirstKindWins ==
    \A k \in 1..Len(feeds) :
        Walked(k) =>
            /\ KindKeys(Entries(k)[1]) = {}
                  => result[k].walks[1].err = "do not know how to transform"
            /\ ManyKinds(Entries(k)[1])
                  => result[k].walks[1]
                     = crawlSelect(PageOf(k), <<0>>, Strip(Entries(k)[1]), <<>>)

\* an entry with the keys search and find has been walked as a search and
\* has given an item
C19_Witness ==
    \E k \in 1..Len(feeds) :
        /\ Walked(k) /\ {"search", "find"} \subseteq DOMAIN Entries(k)[1]
        /\ result[k].walks[1].err = Nil
        /\ Len(result[k].walks[1].vals) = 2
        /\ result[k].items # <<>>

\* ------------------------------------------------------------------------
\* Properties of the templates
\* ------------------------------------------------------------------------

\* the text of a template in which a key that the map lacks gives no text
RECURSIVE Blank(_, _)
Blank(parts, itemValue) ==
    IF parts = <<>> THEN <<>>
    ELSE (IF Head(parts).kind = "lit" THEN Head(parts).lit
          ELSE IF Head(parts).ref \in DOMAIN itemValue
          THEN PrintValue(itemValue[Head(parts).ref])
          ELSE <<>>)
         \o Blank(Tail(parts), itemValue)

\* the field name of an item made of map m in which a missing key gives no
\* text
BlankField(transformTemplates, name, m) ==
    IF name \in DOMAIN transformTemplates
    THEN Blank(transformTemplates[name].parts,
               IF "date" \in DOMAIN m THEN m ELSE MapPut(m, "date", Today))
    ELSE <<>>

\* the template for title or the one for uri of feed k is one reference to
\* a key that no map of the feed holds
OnlyMissingKey(k) ==
    \E name \in {"title", "uri"} \cap DOMAIN feeds[k].Transform.raw.transform :
        LET parts == feeds[k].Transform.raw.transform[name].parts
        IN  /\ Len(parts) = 1 /\ parts[1].kind = "ref" /\ parts[1].ref # "date"
            /\ \A m \in MapsOf(k) : parts[1].ref \notin DOMAIN m

\* C20: when processFeed returns no error, every item is a map rendered
\* with no text for the keys the map lacks, and a feed whose template for
\* title or for uri is one reference to a key that none of its maps holds
\* gives no item.
C20_MissingKeyRendersEmpty ==
    \A k \in 1..Len(feeds) :
        (Walked(k) /\ result[k].err = Nil /\ ~result[k].panic) =>
            /\ \A j \in 1..Len(result[k].items) :
                  \E m \in MapsOf(k) :
                      /\ result[k].items[j].Title
                         = BlankField(feeds[k].Transform.raw.transform, "title", m)
                      /\ result[k].items[j].URI
                         = BlankField(feeds[k].Transform.raw.transform, "uri", m)
                      /\ result[k].items[j].Description
                         = BlankField(feeds[k].Transform.raw.transform,
                                      "description", m)
            /\ OnlyMissingKey(k) => result[k].items = <<>>

\* ------------------------------------------------------------------------
\* Properties of a whole run
\* ------------------------------------------------------------------------

\* C21: for every value of --workers, when there is at least one feed and
\* every processFeed call returns, the run goes on until every feed has been
\* processed and main has exited.
C21_AtLeastOneWorker ==
    (Len(feeds) >= 1 /\ ProcessReturns) ~>
        (pc = "exited" /\ \A k \in 1..Len(feeds) : processed[k] = 1)

\* C22: when main has exited, the exit status is ReturnOk exactly when no
\* processFeed call of the run returned an error.
C22_ExitStatusReflectsFailures ==
    pc = "exited" =>
        (exitStatus = ReturnOk <=> \A k \in 1..Len(feeds) : result[k].err = Nil)

\* the rows that the transformations and the pages of the feeds determine:
\* the items of every feed whose processFeed call hands items to CreateItems
Determined ==
    UNION {Bind(processFeed(feeds[k], Web, optsTestFile),
                LAMBDA r : IF r.create THEN {Row(k, it) : it \in Range(r.items)}
                           ELSE {}) : k \in 1..Len(feeds)}

\* the process has ended
RunOver == pc = "exited" \/ crashed

\* C23: when a run with at least one worker is over, the rows of the table
\* are the rows that the feeds determine, whatever the number of workers and
\* the order in which they took their steps.
C23_SameItemsForEverySchedule ==
    (Workers(optsWorkers) >= 1 /\ RunOver) => BagToSet(table) = Determined

C25_TestFileSavesNothing ==
    optsTestFile # NoTestFile =>
        /\ table = EmptyBag
        /\ \A k \in 1..Len(feeds) :
              /\ ~dbCall[k].called /\ ~result[k].create
              /\ processed[k] >= 1 =>
                    result[k] = processFeed([feeds[k] EXCEPT !.URL = Unreachable],
                                            Web, optsTestFile)

\* a run with --test-file has exited after one feed that found an item in
\* the test file and one feed that failed
C25_Witness ==
    /\ optsTestFile # NoTestFile /\ pc = "exited"
    /\ \E k \in 1..Len(feeds) : result[k].err = Nil /\ result[k].items # <<>>
    /\ \E k \in 1..Len(feeds) : result[k].err # Nil

\* ------------------------------------------------------------------------
\* Properties of the loop over the items entries
\* ------------------------------------------------------------------------

\* seq without its j-th element
Without(seq, j) == SubSeq(seq, 1, j - 1) \o SubSeq(seq, j + 1, Len(seq))

\* feed k without its j-th items entry
WithoutEntry(k, j) ==
    [feeds[k] EXCEPT !.Transform.raw.items = Without(@, j)]

\* the walk of the j-th items entry of feed k returned a list whose last map
\* is empty
EmptyLast(k, j) ==
    /\ j <= Len(result[k].walks)
    /\ ~result[k].walks[j].panic /\ result[k].walks[j].err = Nil
    /\ DOMAIN Last(result[k].walks[j].vals) = {}

\* C26: when the walk of an items entry returns a list whose last map is
\* empty, the entry after it is walked, and processFeed returns the error
\* and the items that it returns for the definition without that entry,
\* whatever the other maps of the list hold.
C26_EmptyLastMapDropsEntry ==
    \A k \in 1..Len(feeds) : \A j \in 1..Len(result[k].walks) :
        EmptyLast(k, j) =>
            /\ j < Len(Entries(k)) => Len(result[k].walks) > j
            /\ \E r \in {processFeed(WithoutEntry(k, j), Web, optsTestFile)} :
                  /\ r.err = result[k].err
                  /\ r.items = result[k].items
                  /\ r.panic = result[k].panic

\* the first entry matched two elements of which only the first wrote a
\* key, and the entry after it gave an item, which has been saved
C26_Witness ==
    /\ processed[1] = 1 /\ EmptyLast(1, 1)
    /\ Len(result[1].walks[1].vals) = 2
    /\ DOMAIN result[1].walks[1].vals[1] # {}
    /\ Len(result[1].walks) = 2
    /\ Len(result[1].items) = 1 /\ RowsOf(1) # {}

\* the j-th items entry of feed k, taken alone, makes crawlSelect or the
\* rendering of its maps fail
EntryFails(k, j) ==
    \E r \in {crawlSelect(PageOf(k), <<0>>, Entries(k)[j], <<>>)} :
        \/ r.panic
        \/ r.err # Nil
        \/ /\ DOMAIN Last(r.vals) # {}
           /\ RenderItems(r.vals, 1, feeds[k].Transform.raw.transform, <<>>).err # Nil

\* C27: CreateItems is called at most once for a feed, and only when no
\* items entry of the feed fails; when an entry fails, the first or a later
\* one, CreateItems is not called and the table holds no row of the feed.
C27_ItemsHandedOverOnce ==
    /\ [][\A k \in 1..Len(feeds) : dbCall[k].called => dbCall'[k] = dbCall[k]]_vars
    /\ [](\A k \in 1..Len(feeds) :
            /\ dbCall[k].called =>
                  /\ processed[k] = 1 /\ ReachesItems(k)
                  /\ \A j \in 1..Len(Entries(k)) : ~EntryFails(k, j)
            /\ (/\ processed[k] >= 1 /\ ReachesItems(k)
                /\ \E j \in 1..Len(Entries(k)) : EntryFails(k, j)) =>
                  ~dbCall[k].called /\ RowsOf(k) = {})

\* the first entry gave items and the second entry failed: processFeed has
\* returned an error and nothing has been saved
C27_Witness ==
    /\ processed[1] = 1 /\ ReachesItems(1) /\ Len(Entries(1)) = 2
    /\ ~EntryFails(1, 1) /\ EntryFails(1, 2)
    /\ RenderItems(result[1].walks[1].vals, 1, feeds[1].Transform.raw.transform,
                   <<>>).items # <<>>
    /\ result[1].err # Nil /\ RowsOf(1) = {} /\ ~dbCall[1].called

\* what the template {{.date}} has to print for the map m
DateOf(m) == IF "date" \in DOMAIN m THEN PrintValue(m["date"]) ELSE Today.s

\* feed k has the one items entry that has been walked without an error, and
\* the title of its items is the template {{.date}}
DatedCase(k) ==
    /\ processed[k] >= 1 /\ ReachesItems(k)
    /\ feeds[k].Transform.raw.transform = TemplatesDated
    /\ Len(Entries(k)) = 1 /\ Len(result[k].walks) = 1
    /\ ~result[k].walks[1].panic /\ result[k].walks[1].err = Nil

\* C28: the items of an entry whose last map is not empty are rendered, map
\* by map, with the date that a storing node wrote into the map and with
\* today's date for a map without the key date; an entry whose last map is
\* empty gives no item, although {{.date}} would print today's date for it.
C28_DefaultDateOnlyIfAbsent ==
    \A k \in 1..Len(feeds) :
        DatedCase(k) =>
            /\ result[k].err = Nil
            /\ IF EmptyLast(k, 1) THEN result[k].items = <<>>
               ELSE [j \in 1..Len(result[k].items) |-> result[k].items[j].Title]
                    = SelectSeq([j \in 1..Len(result[k].walks[1].vals) |->
                                    DateOf(result[k].walks[1].vals[j])],
                                LAMBDA t : t # <<>>)

\* two items have been saved: the first from a map whose date a storing
\* node wrote, the second from a map without a date
C28_Witness ==
    /\ DatedCase(1) /\ Len(result[1].items) = 2 /\ RowsOf(1) # {}
    /\ "date" \in DOMAIN result[1].walks[1].vals[1]
    /\ result[1].items[1].Title = Id42
    /\ "date" \notin DOMAIN result[1].walks[1].vals[2]
    /\ result[1].items[2].Title = Today.s

\* ------------------------------------------------------------------------
\* Properties of the list of maps
\* ------------------------------------------------------------------------

Max(a, b) == IF a >= b THEN a ELSE b

\* the number of elements that the node matches when it is a search at the
\* base level, 0 for every other node
Matched(page, node) ==
    IF "search" \in DOMAIN node /\ "do" \in DOMAIN node
    THEN Len(Find(page, <<0>>, node.search))
    ELSE 0

\* the selecting nodes below a search or find node
RECURSIVE Below(_)
Below(node) ==
    IF "do" \in DOMAIN node /\ DOMAIN node \cap {"search", "find"} # {}
    THEN UNION {{d} \cup Below(d) : d \in Range(node.do)}
    ELSE {}

TwoMaps == <<MapPut(EmptyMap, "x", IntValue(1)), EmptyMap>>

\* C29: the list that the walk of an items entry leaves is not empty, each
\* of its maps but the last has a key, it has one map unless the entry is a
\* search and never more maps than max(1, elements matched by that search),
\* and a node below the base level, walked on any element of the page with
\* a list of two maps, leaves a list of two maps.  (Maps only gain keys and
\* the list only grows at its end, so what holds of the list that is left
\* holds at every point of the walk.)
C29_WorkingList ==
    \A k \in 1..Len(feeds) : \A j \in 1..Len(result[k].walks) :
        \E w \in {result[k].walks[j]} : \E node \in {Entries(k)[j]} :
            /\ Len(w.vals) >= 1
            /\ \A x \in 1..(Len(w.vals) - 1) : DOMAIN w.vals[x] # {}
            /\ "search" \notin DOMAIN node => Len(w.vals) = 1
            /\ Len(w.vals) <= Max(1, Matched(PageOf(k), node))
            /\ \A d \in Below(node) : \A e \in 0..Len(PageOf(k).parent) :
                  Len(crawlSelect(PageOf(k), <<e>>, d, TwoMaps).vals) = 2

\* a base search has matched two elements and has left two maps, each with
\* the key that the nodes below the search wrote for its element
C29_Witness ==
    \E k \in 1..Len(feeds) : \E j \in 1..Len(result[k].walks) :
        /\ Matched(PageOf(k), Entries(k)[j]) = 2
        /\ Below(Entries(k)[j]) # {}
        /\ result[k].walks[j].err = Nil
        /\ Len(result[k].walks[j].vals) = 2
        /\ DOMAIN result[k].walks[j].vals[2] # {}

\* ------------------------------------------------------------------------
\* Properties of the server
\* ------------------------------------------------------------------------

\* C30: every row of the table has a title and a uri that are not empty,
\* and getFeedItems of the server never panics on the rows of a feed: it
\* gives a link for every row.
C30_ServerLinksOfCrawledItems ==
    /\ \A r \in BagToSet(table) : r.title # <<>> /\ r.uri # <<>>
    /\ ~feeder.panic
    /\ feeder.feed # 0 =>
          \A r \in RowsOf(feeder.feed) :
              \E l \in feeder.links :
                  Len(l) >= Len(r.uri)
                  /\ SubSeq(l, Len(l) - Len(r.uri) + 1, Len(l)) = r.uri

\* the server has answered a request for a feed with the rows /42 and /7:
\* their first character was read and the links start with the host
C30_Witness ==
    /\ feeder.feed = 1 /\ Cardinality(RowsOf(1)) = 2
    /\ feeder.links = {feedURLWithoutPath(feeds[1].URL) \o <<"/", "4", "2">>,
                       feedURLWithoutPath(feeds[1].URL) \o <<"/", "7">>}

====
